---- MODULE Spec2Model ----
(***************************************************************************)
(* Model of the MCP protocol server of go-mcp-git (internal/mcp): the tool *)
(* registry, the JSON-RPC dispatcher with its session flag, and the stdio  *)
(* transport loop.  JSON documents are abstracted to the shape that        *)
(* encoding/json looks at: which keys are present and what JSON type each  *)
(* value has.                                                              *)
(***************************************************************************)
EXTENDS Integers, Sequences, FiniteSets, TLC

(* ----------------------------- bounds --------------------------------- *)

\* number of RegisterTool calls made before Serve starts
MaxTools == 2
\* the longest command string given to git_raw_command
MaxCommandLen == 5
\* the number of commits a repository comes to hold
MaxCommits == 2

(* ------------------------- abstract JSON values ----------------------- *)

\* A JSON value as the decoder sees it: its type and its literal text.
\* "absent" stands for a key that the enclosing object does not have.
Absent == [t |-> "absent", v |-> ""]
Null == [t |-> "null", v |-> "null"]
Str(s) == [t |-> "string", v |-> s]
Num(n) == [t |-> "number", v |-> n]
Obj(o) == [t |-> "object", v |-> o]
Arr(a) == [t |-> "array", v |-> a]

\* Go values
Nil == [nil |-> TRUE]

(* ------------------------- internal/mcp/types.go ---------------------- *)

JSONRPCVersion == "2.0"
MethodInitialize == "initialize"
MethodListTools == "tools/list"
MethodCallTool == "tools/call"
MethodListRoots == "roots/list"

\* type Tool struct {Name, Description, InputSchema}
Tool(name, description) ==
    [Name |-> name, Description |-> description, InputSchema |-> "object"]

\* type TextContent struct {Type, Text}
TextContent(text) == [Type |-> "text", Text |-> text]

\* type RPCError struct {Code, Message}; Data is never set by the server.
\* Message is kept as the sequence of the pieces fmt.Sprintf joins.
RPCError(code, message) == [Code |-> code, Message |-> message]

\* type JSONRPCResponse struct {JSONRPC, ID, Result, Error}
JSONRPCResponse(id, result, error) ==
    [JSONRPC |-> JSONRPCVersion, ID |-> id, Result |-> result, Error |-> error]

(* ------------------------------ inputs -------------------------------- *)

ToolNames == {"git_status", "git_add"}

\* what main may pass to RegisterTool: a tool, the same name again with
\* another description and handler, and a second tool
Registrations ==
    {[tool |-> Tool("git_status", "Shows the working tree status"),
      handler |-> "handleGitStatus"],
     [tool |-> Tool("git_status", "Adds file contents to the staging area"),
      handler |-> "handleGitAdd"],
     [tool |-> Tool("git_add", "Adds file contents to the staging area"),
      handler |-> "handleGitAdd"]}

\* the tools the README lists
READMETools ==
    {"git_status", "git_init", "git_add",
     "git_commit", "git_reset", "git_branch",
     "git_create_branch", "git_checkout", "git_diff_unstaged",
     "git_diff_staged", "git_diff", "git_log",
     "git_show", "git_push", "git_list_repositories",
     "git_create_tag", "git_delete_tag", "git_list_tags",
     "git_push_tags", "git_raw_command"}

\* git_diff_staged is registered under the name git_diff
registerTools_DuplicateName ==
    <<[tool |-> Tool("git_status",
                     "Shows the working tree status"),
       handler |-> "handleGitStatus"],
      [tool |-> Tool("git_diff_unstaged",
                     "Shows changes in working directory not yet staged"),
       handler |-> "handleGitDiffUnstaged"],
      [tool |-> Tool("git_diff",
                     "Shows changes that are staged for commit"),
       handler |-> "handleGitDiffStaged"],
      [tool |-> Tool("git_diff",
                     "Shows differences between branches or commits"),
       handler |-> "handleGitDiff"],
      [tool |-> Tool("git_commit",
                     "Records changes to the repository"),
       handler |-> "handleGitCommit"],
      [tool |-> Tool("git_add",
                     "Adds file contents to the staging area"),
       handler |-> "handleGitAdd"],
      [tool |-> Tool("git_reset",
                     "Unstages all staged changes"),
       handler |-> "handleGitReset"],
      [tool |-> Tool("git_log",
                     "Shows the commit logs with optional date filtering"),
       handler |-> "handleGitLog"],
      [tool |-> Tool("git_create_branch",
                     "Creates a new branch"),
       handler |-> "handleGitCreateBranch"],
      [tool |-> Tool("git_checkout",
                     "Switches branches"),
       handler |-> "handleGitCheckout"],
      [tool |-> Tool("git_show",
                     "Shows the contents of a commit"),
       handler |-> "handleGitShow"],
      [tool |-> Tool("git_branch",
                     "List Git branches"),
       handler |-> "handleGitBranch"],
      [tool |-> Tool("git_raw_command",
                     "Execute a raw Git command directly (bypasses shell wrapping issues)"),
       handler |-> "handleGitRawCommand"],
      [tool |-> Tool("git_init",
                     "Initialize a new Git repository"),
       handler |-> "handleGitInit"],
      [tool |-> Tool("git_push",
                     "Push changes to remote repository"),
       handler |-> "handleGitPush"],
      [tool |-> Tool("git_list_repositories",
                     "List Git repositories in a directory"),
       handler |-> "handleGitListRepositories"],
      [tool |-> Tool("git_create_tag",
                     "Create a new Git tag"),
       handler |-> "handleGitCreateTag"],
      [tool |-> Tool("git_delete_tag",
                     "Delete a Git tag"),
       handler |-> "handleGitDeleteTag"],
      [tool |-> Tool("git_list_tags",
                     "List Git tags"),
       handler |-> "handleGitListTags"],
      [tool |-> Tool("git_push_tags",
                     "Push tags to remote repository"),
       handler |-> "handleGitPushTags"]>>

\* Server.registerTools: the RegisterTool calls of server.New, in order
registerTools ==
    <<[tool |-> Tool("git_status",
                     "Shows the working tree status"),
       handler |-> "handleGitStatus"],
      [tool |-> Tool("git_diff_unstaged",
                     "Shows changes in working directory not yet staged"),
       handler |-> "handleGitDiffUnstaged"],
      [tool |-> Tool("git_diff_staged",
                     "Shows changes that are staged for commit"),
       handler |-> "handleGitDiffStaged"],
      [tool |-> Tool("git_diff",
                     "Shows differences between branches or commits"),
       handler |-> "handleGitDiff"],
      [tool |-> Tool("git_commit",
                     "Records changes to the repository"),
       handler |-> "handleGitCommit"],
      [tool |-> Tool("git_add",
                     "Adds file contents to the staging area"),
       handler |-> "handleGitAdd"],
      [tool |-> Tool("git_reset",
                     "Unstages all staged changes"),
       handler |-> "handleGitReset"],
      [tool |-> Tool("git_log",
                     "Shows the commit logs with optional date filtering"),
       handler |-> "handleGitLog"],
      [tool |-> Tool("git_create_branch",
                     "Creates a new branch"),
       handler |-> "handleGitCreateBranch"],
      [tool |-> Tool("git_checkout",
                     "Switches branches"),
       handler |-> "handleGitCheckout"],
      [tool |-> Tool("git_show",
                     "Shows the contents of a commit"),
       handler |-> "handleGitShow"],
      [tool |-> Tool("git_branch",
                     "List Git branches"),
       handler |-> "handleGitBranch"],
      [tool |-> Tool("git_raw_command",
                     "Execute a raw Git command directly (bypasses shell wrapping issues)"),
       handler |-> "handleGitRawCommand"],
      [tool |-> Tool("git_init",
                     "Initialize a new Git repository"),
       handler |-> "handleGitInit"],
      [tool |-> Tool("git_push",
                     "Push changes to remote repository"),
       handler |-> "handleGitPush"],
      [tool |-> Tool("git_list_repositories",
                     "List Git repositories in a directory"),
       handler |-> "handleGitListRepositories"],
      [tool |-> Tool("git_create_tag",
                     "Create a new Git tag"),
       handler |-> "handleGitCreateTag"],
      [tool |-> Tool("git_delete_tag",
                     "Delete a Git tag"),
       handler |-> "handleGitDeleteTag"],
      [tool |-> Tool("git_list_tags",
                     "List Git tags"),
       handler |-> "handleGitListTags"],
      [tool |-> Tool("git_push_tags",
                     "Push tags to remote repository"),
       handler |-> "handleGitPushTags"]>>

\* the "id" member of a frame: absent, null, a small number, an integer
\* above 2^53, a string
WireIDs == {Absent, Null, Num("1"), Num("9007199254740993"), Str("a")}

\* the "method" member of a frame: the three methods the server routes,
\* and a missing, unrouted or mistyped one
RoutedMethods ==
    {Str(MethodInitialize), Str(MethodListTools), Str(MethodCallTool)}
OtherMethods == {Absent, Str(MethodListRoots), Str("ping"), Num("1")}

\* the "params" member of a frame: absent, null, a non-object, or an object
\* of which only the keys some request type reads are recorded
Params(pv, caps, ci, name, args) ==
    [shape |-> "object", protocolVersion |-> pv, capabilities |-> caps,
     clientInfo |-> ci, name |-> name, arguments |-> args]
ParamsOther(shape) ==
    [shape |-> shape, protocolVersion |-> Absent, capabilities |-> Absent,
     clientInfo |-> Absent, name |-> Absent, arguments |-> Absent]

ClientInfoOK == Obj("{name,version}")
ClientInfoBad == Obj("{name:1}")

InitializeParams ==
    {Params(Str("2024-11-05"), Obj("{}"), ClientInfoOK, Absent, Absent),
     Params(Str("x"), Obj("{}"), ClientInfoOK, Absent, Absent),
     Params(Absent, Obj("{}"), ClientInfoOK, Absent, Absent),
     Params(Str("x"), Obj("{}"), Absent, Absent, Absent),
     Params(Str("x"), Absent, ClientInfoOK, Absent, Absent),
     Params(Num("1"), Obj("{}"), ClientInfoOK, Absent, Absent),
     Params(Str("x"), Obj("{}"), Str("t"), Absent, Absent),
     Params(Str("x"), Obj("{}"), ClientInfoBad, Absent, Absent),
     Params(Str("x"), Arr("[]"), ClientInfoOK, Absent, Absent)}

CallToolParams ==
    {Params(Absent, Absent, Absent, Str(n), Obj("{}")) :
        n \in ToolNames \cup {"nonexistent"}}
    \cup
    {Params(Absent, Absent, Absent, Str("git_status"), Absent),
     Params(Absent, Absent, Absent, Str("git_status"), Obj("{repo_path}")),
     Params(Absent, Absent, Absent, Absent, Obj("{}")),
     Params(Absent, Absent, Absent, Null, Obj("{}")),
     Params(Absent, Absent, Absent, Num("1"), Obj("{}")),
     Params(Absent, Absent, Absent, Str("git_status"), Arr("[]"))}

EmptyObject == Params(Absent, Absent, Absent, Absent, Absent)

WireParams ==
    {ParamsOther("absent"), ParamsOther("null"), ParamsOther("nonobject"),
     EmptyObject}
    \cup InitializeParams \cup CallToolParams

\* one line of standard input
Frame(syntax, jsonrpc, id, method, params) ==
    [syntax |-> syntax, jsonrpc |-> jsonrpc, id |-> id, method |-> method,
     params |-> params]

Frames ==
    {Frame("object", Str(JSONRPCVersion), i, m, p) :
        i \in WireIDs, m \in RoutedMethods, p \in WireParams}
    \cup
    {Frame("object", Str(JSONRPCVersion), i, m, p) :
        i \in WireIDs, m \in OtherMethods,
        p \in {ParamsOther("absent"), EmptyObject}}
    \cup
    {Frame(s, Absent, Absent, Absent, ParamsOther("absent")) :
        s \in {"invalid", "nonobject", "null"}}
    \cup
    {Frame("object", j, Num("1"), Str(MethodListTools), ParamsOther("absent")) :
        j \in {Absent, Str("1.0"), Num("2")}}

\* lines sent to the server server.New builds: an initialize, a tools/list,
\* a call of each tool of the README and of an unknown one, and a line that
\* is no JSON
FramesNew ==
    {Frame("object", Str(JSONRPCVersion), Num("1"), Str(MethodInitialize),
           Params(Str("2024-11-05"), Obj("{}"), ClientInfoOK, Absent, Absent)),
     Frame("object", Str(JSONRPCVersion), Num("1"), Str(MethodListTools),
           ParamsOther("absent")),
     Frame("invalid", Absent, Absent, Absent, ParamsOther("absent"))}
    \cup
    {Frame("object", Str(JSONRPCVersion), Num("1"), Str(MethodCallTool),
           Params(Absent, Absent, Absent, Str(n), Obj("{}"))) :
        n \in READMETools \cup {"nonexistent"}}

\* what a tool handler may do when called: return content or not, and
\* an error or not
Outcomes == [empty : BOOLEAN, err : {"nil", "repository not found"}]

\* handler(ctx, arguments): the (content, err) the handler h returns
ToolHandler(h, arguments, outcome) ==
    [content |-> IF outcome.empty THEN <<>> ELSE <<TextContent(h)>>,
     err |-> outcome.err]

NoLine == Frame("none", Absent, Absent, Absent, ParamsOther("absent"))

\* what precedes the end of the stream since the last newline: nothing, or
\* the text of an initialize request
Rests ==
    {NoLine,
     Frame("object", Str(JSONRPCVersion), Num("1"), Str(MethodInitialize),
           Params(Str("2024-11-05"), Obj("{}"), ClientInfoOK, Absent, Absent))}

(* ------------------------------- state -------------------------------- *)

VARIABLES
    tools,          \* Server.tools
    toolHandlers,   \* Server.toolHandlers
    initialized,    \* Server.initialized
    cancelled,      \* ctx.Done() is closed
    pc,             \* where main / Serve stands
    line,           \* the frame Serve read last
    response,       \* what handleRequest returned for it
    invoked,        \* the handler calls handleRequest made for it
    wrote,          \* how the write of the last response went
    ret,            \* what Serve returned
    firstInit,      \* history: the result of the first initialize that succeeded
    handlerFailed,  \* history: some tool handler returned an error
    registered,     \* history: the RegisterTool calls made, in order
    inflight,       \* history: the frames read whose response was not yet handed to the writer
    readErr,        \* the error reader.ReadBytes returned last
    repo,           \* the repository at repoPath: commits, refs, HEAD, index, worktree
    op              \* the call of an Operations method made last, and what it returned

vars ==
    <<tools, toolHandlers, initialized, cancelled, pc, line, response,
      invoked, wrote, ret, firstInit, handlerFailed, registered, inflight,
      readErr, repo, op>>

\* the state of the mcp.Server and of its Serve loop
serverVars ==
    <<tools, toolHandlers, initialized, cancelled, pc, line, response,
      invoked, wrote, ret, firstInit, handlerFailed, registered, inflight,
      readErr>>

(* ------------------------- encoding/json decoding --------------------- *)

\* a JSON number decoded into interface{} becomes a float64: integers above
\* 2^53 are rounded to the nearest representable value
ParseFloat(v) == IF v = "9007199254740993" THEN "9007199254740992" ELSE v

\* JSONRPCRequest.ID (interface{}): a missing or null id leaves it nil
UnmarshalID(w) ==
    CASE w.t \in {"absent", "null"} -> Nil
      [] w.t = "number" -> [float64 |-> ParseFloat(w.v)]
      [] OTHER -> [string |-> w.v]

\* a string field accepts a string, null or a missing key
StringFieldOK(w) == w.t \in {"absent", "null", "string"}
\* a struct or map field accepts an object, null or a missing key
ObjectFieldOK(w) == w.t \in {"absent", "null", "object"}
StringField(w) == IF w.t = "string" THEN w.v ELSE ""

\* a member of the wrong type is skipped without an error
UnmarshalRequest_Lenient(requestBytes) ==
    LET f == requestBytes
    IN  IF f.syntax = "object"
        THEN [err |-> FALSE, JSONRPC |-> StringField(f.jsonrpc),
              ID |-> UnmarshalID(f.id), Method |-> StringField(f.method),
              Params |-> f.params]
        ELSE [err |-> f.syntax # "null", JSONRPC |-> "", ID |-> Nil,
              Method |-> "", Params |-> ParamsOther("absent")]

\* json.Unmarshal(requestBytes, &request) with request a JSONRPCRequest
UnmarshalRequest(requestBytes) ==
    LET f == requestBytes
        ok == \/ f.syntax = "null"
              \/ /\ f.syntax = "object"
                 /\ StringFieldOK(f.jsonrpc)
                 /\ StringFieldOK(f.method)
    IN  IF ok /\ f.syntax = "object"
        THEN [err |-> FALSE, JSONRPC |-> StringField(f.jsonrpc),
              ID |-> UnmarshalID(f.id), Method |-> StringField(f.method),
              Params |-> f.params]
        ELSE [err |-> ~ok, JSONRPC |-> "", ID |-> Nil, Method |-> "",
              Params |-> ParamsOther("absent")]

\* json.Unmarshal(request.Params, &initReq) with initReq an InitializeRequest:
\* no key is required, every key present must have the type of its field
UnmarshalInitializeRequest(params) ==
    LET err == \/ params.shape \in {"absent", "nonobject"}
               \/ /\ params.shape = "object"
                  /\ \/ ~StringFieldOK(params.protocolVersion)
                     \/ ~ObjectFieldOK(params.capabilities)
                     \/ ~ObjectFieldOK(params.clientInfo)
                     \/ params.clientInfo = ClientInfoBad
    IN  [err |-> err,
         ProtocolVersion |->
            IF err \/ params.shape # "object" THEN ""
            ELSE StringField(params.protocolVersion)]

\* json.Unmarshal(request.Params, &callReq) with callReq a CallToolRequest
UnmarshalCallToolRequest(params) ==
    LET err == \/ params.shape \in {"absent", "nonobject"}
               \/ /\ params.shape = "object"
                  /\ \/ ~StringFieldOK(params.name)
                     \/ ~ObjectFieldOK(params.arguments)
        obj == ~err /\ params.shape = "object"
    IN  [err |-> err,
         Name |-> IF obj THEN StringField(params.name) ELSE "",
         Arguments |->
            IF obj /\ params.arguments.t = "object"
            THEN [map |-> params.arguments.v] ELSE Nil]

(* ------------------------ internal/mcp/server.go ---------------------- *)

\* what a handler of the dispatcher hands back: the response, the value it
\* leaves in Server.initialized, and the tool handler calls it made
Handled(resp, init, calls) ==
    [response |-> resp, initialized |-> init, invoked |-> calls]

ErrorResponse_NoID(id, code, message) ==
    JSONRPCResponse(Nil, Nil, RPCError(code, message))

\* &JSONRPCResponse{JSONRPC: JSONRPCVersion, ID: request.ID, Error: &RPCError{...}}
ErrorResponse(id, code, message) ==
    JSONRPCResponse(id, Nil, RPCError(code, message))

\* Server.name, Server.version, Server.capabilities as NewServer is called
ServerName == "go-mcp-git"
ServerVersion == "0.0.1"
ServerCapabilities == [Tools |-> [ListChanged |-> FALSE]]

\* the server's name is left out of serverInfo
InitializeResponse_Unnamed(protocolVersion) ==
    [ProtocolVersion |-> protocolVersion,
     Capabilities |-> ServerCapabilities,
     ServerInfo |-> [Name |-> "", Version |-> ServerVersion]]

InitializeResponse(protocolVersion) ==
    [ProtocolVersion |-> protocolVersion,
     Capabilities |-> ServerCapabilities,
     ServerInfo |-> [Name |-> ServerName, Version |-> ServerVersion]]

\* the flag is set before the params are looked at
handleInitialize_SetFirst(request) ==
    LET initReq == UnmarshalInitializeRequest(request.Params)
    IN  IF initReq.err
        THEN Handled(ErrorResponse(request.ID, -32602, <<"Invalid params">>),
                     TRUE, <<>>)
        ELSE Handled(JSONRPCResponse(request.ID,
                        InitializeResponse("2024-11-05"), Nil),
                     TRUE, <<>>)

\* the client's protocol version is echoed
handleInitialize_Negotiate(request) ==
    LET initReq == UnmarshalInitializeRequest(request.Params)
    IN  IF initReq.err
        THEN Handled(ErrorResponse(request.ID, -32602, <<"Invalid params">>),
                     initialized, <<>>)
        ELSE Handled(JSONRPCResponse(request.ID,
                        InitializeResponse(initReq.ProtocolVersion), Nil),
                     TRUE, <<>>)

handleInitialize(request) ==
    LET initReq == UnmarshalInitializeRequest(request.Params)
    IN  IF initReq.err
        THEN Handled(ErrorResponse(request.ID, -32602, <<"Invalid params">>),
                     initialized, <<>>)
        ELSE Handled(JSONRPCResponse(request.ID,
                        InitializeResponse("2024-11-05"), Nil),
                     TRUE, <<>>)

\* the initialized check is missing
handleListTools_NoGate(request) ==
    Handled(JSONRPCResponse(request.ID, [Tools |-> tools], Nil),
            initialized, <<>>)

\* the list is built from the handler map, whose order is not that of
\* registration
handleListTools_MapOrder(request) ==
    IF ~initialized
    THEN Handled(ErrorResponse(request.ID, -32002, <<"Server not initialized">>),
                 initialized, <<>>)
    ELSE Handled(JSONRPCResponse(request.ID,
                    [Tools |-> [i \in DOMAIN tools |->
                                    tools[Len(tools) + 1 - i]]],
                    Nil),
                 initialized, <<>>)

handleListTools(request) ==
    IF ~initialized
    THEN Handled(ErrorResponse(request.ID, -32002, <<"Server not initialized">>),
                 initialized, <<>>)
    ELSE Handled(JSONRPCResponse(request.ID, [Tools |-> tools], Nil),
                 initialized, <<>>)

\* the message does not name the tool
unknownTool_NoName(request, name) ==
    Handled(ErrorResponse(request.ID, -32601, <<"Method not found">>),
            initialized, <<>>)

\* handleCallTool, if !exists
unknownTool(request, name) ==
    Handled(ErrorResponse(request.ID, -32601, <<"Unknown tool: ", name>>),
            initialized, <<>>)

\* the content is returned next to the error
callHandler_Both(request, callReq, outcome) ==
    LET handler == toolHandlers[callReq.Name]
        returned == ToolHandler(handler, callReq.Arguments, outcome)
        call == [handler |-> handler, arguments |-> callReq.Arguments,
                 returned |-> returned]
    IN  IF returned.err # "nil"
        THEN Handled(JSONRPCResponse(request.ID,
                        [Content |-> returned.content],
                        RPCError(-32603,
                                 <<"Tool execution error: ", returned.err>>)),
                     initialized, <<call>>)
        ELSE Handled(JSONRPCResponse(request.ID,
                        [Content |-> returned.content], Nil),
                     initialized, <<call>>)

\* the handler's error is reported as invalid params
callHandler_WrongCode(request, callReq, outcome) ==
    LET handler == toolHandlers[callReq.Name]
        returned == ToolHandler(handler, callReq.Arguments, outcome)
        call == [handler |-> handler, arguments |-> callReq.Arguments,
                 returned |-> returned]
    IN  IF returned.err # "nil"
        THEN Handled(ErrorResponse(request.ID, -32602, <<returned.err>>),
                     initialized, <<call>>)
        ELSE Handled(JSONRPCResponse(request.ID,
                        [Content |-> returned.content], Nil),
                     initialized, <<call>>)

\* handleCallTool from the handler lookup on, for a registered name:
\* outcome is what the tool handler does when called
\* the handler is called a second time for the same request
callHandler_Twice(request, callReq, outcome) ==
    LET handler == toolHandlers[callReq.Name]
        returned == ToolHandler(handler, callReq.Arguments, outcome)
        call == [handler |-> handler, arguments |-> callReq.Arguments,
                 returned |-> returned]
    IN  IF returned.err # "nil"
        THEN Handled(ErrorResponse(request.ID, -32603,
                        <<"Tool execution error: ", returned.err>>),
                     initialized, <<call, call>>)
        ELSE Handled(JSONRPCResponse(request.ID,
                        [Content |-> returned.content], Nil),
                     initialized, <<call, call>>)

callHandler(request, callReq, outcome) ==
    LET handler == toolHandlers[callReq.Name]
        returned == ToolHandler(handler, callReq.Arguments, outcome)
        call == [handler |-> handler, arguments |-> callReq.Arguments,
                 returned |-> returned]
    IN  IF returned.err # "nil"
        THEN Handled(ErrorResponse(request.ID, -32603,
                        <<"Tool execution error: ", returned.err>>),
                     initialized, <<call>>)
        ELSE Handled(JSONRPCResponse(request.ID,
                        [Content |-> returned.content], Nil),
                     initialized, <<call>>)

\* the params are decoded before the initialized flag is looked at
handleCallTool_DecodeFirst(request, outcome) ==
    LET callReq == UnmarshalCallToolRequest(request.Params)
    IN  IF callReq.err
        THEN Handled(ErrorResponse(request.ID, -32602, <<"Invalid params">>),
                     initialized, <<>>)
        ELSE IF ~initialized
        THEN Handled(ErrorResponse(request.ID, -32002,
                                   <<"Server not initialized">>),
                     initialized, <<>>)
        ELSE IF callReq.Name \notin DOMAIN toolHandlers
        THEN unknownTool(request, callReq.Name)
        ELSE callHandler(request, callReq, outcome)

handleCallTool(request, outcome) ==
    LET callReq == UnmarshalCallToolRequest(request.Params)
    IN  IF ~initialized
        THEN Handled(ErrorResponse(request.ID, -32002,
                                   <<"Server not initialized">>),
                     initialized, <<>>)
        ELSE IF callReq.err
        THEN Handled(ErrorResponse(request.ID, -32602, <<"Invalid params">>),
                     initialized, <<>>)
        ELSE IF callReq.Name \notin DOMAIN toolHandlers
        THEN unknownTool(request, callReq.Name)
        ELSE callHandler(request, callReq, outcome)

\* an unrouted method is refused before initialize like the tool methods
handleRequest_GatedDefault(requestBytes, outcome) ==
    LET request == UnmarshalRequest(requestBytes)
    IN  IF request.err
        THEN Handled(JSONRPCResponse(Nil, Nil, RPCError(-32700, <<"Parse error">>)),
                     initialized, <<>>)
        ELSE CASE request.Method = MethodInitialize -> handleInitialize(request)
               [] request.Method = MethodListTools -> handleListTools(request)
               [] request.Method = MethodCallTool ->
                    handleCallTool(request, outcome)
               [] OTHER ->
                    IF ~initialized
                    THEN Handled(ErrorResponse(request.ID, -32002,
                                    <<"Server not initialized">>),
                                 initialized, <<>>)
                    ELSE Handled(ErrorResponse(request.ID, -32601,
                                    <<"Method not found">>),
                                 initialized, <<>>)

\* a request of an unrouted method that carries no id is taken for a
\* notification and gets no response
handleRequest_NotifySilent(requestBytes, outcome) ==
    LET request == UnmarshalRequest(requestBytes)
    IN  IF request.err
        THEN Handled(JSONRPCResponse(Nil, Nil, RPCError(-32700, <<"Parse error">>)),
                     initialized, <<>>)
        ELSE CASE request.Method = MethodInitialize -> handleInitialize(request)
               [] request.Method = MethodListTools -> handleListTools(request)
               [] request.Method = MethodCallTool ->
                    handleCallTool(request, outcome)
               [] OTHER ->
                    IF request.ID = Nil
                    THEN Handled(Nil, initialized, <<>>)
                    ELSE Handled(ErrorResponse(request.ID, -32601,
                                               <<"Method not found">>),
                                 initialized, <<>>)

handleRequest(requestBytes, outcome) ==
    LET request == UnmarshalRequest(requestBytes)
    IN  IF request.err
        THEN Handled(JSONRPCResponse(Nil, Nil, RPCError(-32700, <<"Parse error">>)),
                     initialized, <<>>)
        ELSE CASE request.Method = MethodInitialize -> handleInitialize(request)
               [] request.Method = MethodListTools -> handleListTools(request)
               [] request.Method = MethodCallTool ->
                    handleCallTool(request, outcome)
               [] OTHER ->
                    Handled(ErrorResponse(request.ID, -32601,
                                          <<"Method not found">>),
                            initialized, <<>>)

(* --------------------- internal/git/operations.go --------------------- *)

\* no repository is looked at, no Operations method has been called
NoRepository == [none |-> TRUE]
Operation(name, args, out, err, exec, prev) ==
    [name |-> name, args |-> args, out |-> out, err |-> err, exec |-> exec,
     prev |-> prev]
NoOperation == Operation("none", <<>>, "", "nil", Nil, "none")

\* a command string is the sequence of its characters
Alphabet == {" ", "\t", "g", "i", "t", "x"}
Commands == UNION {[1..n -> Alphabet] : n \in 0..MaxCommandLen}

\* unicode.IsSpace on the characters of the alphabet
IsSpace(c) == c \in {" ", "\t"}

\* strings.Fields: the maximal runs of non-space characters, in order
RECURSIVE Fields(_)
Fields(s) ==
    IF s = <<>> THEN <<>>
    ELSE IF IsSpace(Head(s)) THEN Fields(Tail(s))
    ELSE LET ends == {i \in 1..Len(s) : IsSpace(s[i])}
             n == IF ends = {} THEN Len(s) + 1
                  ELSE CHOOSE i \in ends : \A j \in ends : i <= j
         IN  <<SubSeq(s, 1, n - 1)>> \o Fields(SubSeq(s, n, Len(s)))

\* exec.Command(name, args...) with cmd.Dir set
Cmd(name, args, dir) == [Path |-> name, Args |-> args, Dir |-> dir]

\* the command is tested with strings.HasPrefix(command, "git")
RawCommand_Prefix(repoPath, command, failed) ==
    LET parts == Fields(command)
    IN  IF Len(parts) = 0
        THEN Operation("RawCommand", <<repoPath, command>>, "",
                       "empty command", Nil, op.name)
        ELSE IF ~(Len(command) >= 3 /\ SubSeq(command, 1, 3) = <<"g", "i", "t">>)
        THEN Operation("RawCommand", <<repoPath, command>>, "",
                       "command must start with 'git'", Nil, op.name)
        ELSE Operation("RawCommand", <<repoPath, command>>,
                       IF failed THEN "" ELSE "output",
                       IF failed THEN "git command failed" ELSE "nil",
                       Cmd("git", Tail(parts), repoPath), op.name)

\* Operations.RawCommand; failed: cmd.CombinedOutput returned an error
RawCommand(repoPath, command, failed) ==
    LET parts == Fields(command)
    IN  IF Len(parts) = 0
        THEN Operation("RawCommand", <<repoPath, command>>, "",
                       "empty command", Nil, op.name)
        ELSE IF parts[1] # <<"g", "i", "t">>
        THEN Operation("RawCommand", <<repoPath, command>>, "",
                       "command must start with 'git'", Nil, op.name)
        ELSE Operation("RawCommand", <<repoPath, command>>,
                       IF failed THEN "" ELSE "output",
                       IF failed THEN "git command failed" ELSE "nil",
                       Cmd("git", Tail(parts), repoPath), op.name)

\* the files of the repository and what they hold; NoFile: there is no
\* such file
Files == {"test.txt", "new.txt"}
NoFile == "(no file)"
Contents == {"test content", "new content"}
BranchNames == {"master", "test-branch"}

\* createTestRepo of the tests: git.PlainInit, test.txt written, added and
\* committed on master
createTestRepo ==
    LET tree == [f \in Files |->
                    IF f = "test.txt" THEN "test content" ELSE NoFile]
    IN  [commits |-> <<tree>>,
         refs |-> [b \in {"master"} |-> 1],
         head |-> "master",
         index |-> tree,
         worktree |-> tree]

\* repo.Head() and the tree of its commit
RepoHead(r) == r.refs[r.head]
HeadTree(r) == r.commits[RepoHead(r)]

\* worktree.Status(): the status codes of a file, and whether the file is
\* in the status map. HEAD is compared with the index, then the index with
\* the worktree; a file that is in the worktree and not in the index is
\* Untracked in both columns.
FileStatus(r, f) ==
    LET head == HeadTree(r)[f]
        idx == r.index[f]
        wt == r.worktree[f]
    IN  [listed |-> head # idx \/ idx # wt,
         Staging |-> IF idx = NoFile /\ wt # NoFile THEN "Untracked"
                     ELSE IF head = idx THEN "Unmodified"
                     ELSE IF idx = NoFile THEN "Deleted"
                     ELSE IF head = NoFile THEN "Added"
                     ELSE "Modified",
         Worktree |-> IF idx = wt THEN "Unmodified"
                      ELSE IF wt = NoFile THEN "Deleted"
                      ELSE IF idx = NoFile THEN "Untracked"
                      ELSE "Modified"]

\* Operations.DiffStaged: the files whose Staging is not Unmodified
DiffStaged(r) ==
    LET stagedFiles == {f \in Files : /\ FileStatus(r, f).listed
                                      /\ FileStatus(r, f).Staging # "Unmodified"}
    IN  [out |-> IF stagedFiles = {}
                 THEN [text |-> "no staged changes", files |-> {}]
                 ELSE [text |-> "diff --git", files |-> stagedFiles],
         err |-> "nil"]

\* worktree.Add(file): "." stages every file; a path that is neither in the
\* worktree nor in the index is an error
WorktreeAdd(r, file) ==
    IF file = "."
    THEN [repo |-> [r EXCEPT !.index = r.worktree], err |-> "nil"]
    ELSE IF r.worktree[file] = NoFile /\ r.index[file] = NoFile
    THEN [repo |-> r, err |-> "failed to add file"]
    ELSE [repo |-> [r EXCEPT !.index[file] = r.worktree[file]], err |-> "nil"]

\* Operations.Add: the files are added one by one, the first error returns
RECURSIVE Add(_, _)
Add(r, files) ==
    IF files = <<>>
    THEN [repo |-> r, out |-> "Files staged successfully", err |-> "nil"]
    ELSE LET added == WorktreeAdd(r, Head(files))
         IN  IF added.err # "nil"
             THEN [repo |-> added.repo, out |-> "", err |-> added.err]
             ELSE Add(added.repo, Tail(files))

\* Operations.Reset: worktree.Reset to the commit of HEAD with MixedReset:
\* the index becomes the tree of that commit, the worktree is left alone
Reset(r) ==
    [repo |-> [r EXCEPT !.index = HeadTree(r)],
     out |-> "All staged changes reset", err |-> "nil"]

\* Operations.Commit: worktree.Commit makes a commit of the index and moves
\* the branch of HEAD to it
Commit(r) ==
    [repo |-> [r EXCEPT !.commits = Append(r.commits, r.index),
                        !.refs[r.head] = Len(r.commits) + 1],
     out |-> "Changes committed successfully", err |-> "nil"]

\* Operations.CreateBranch
CreateBranch(r, branchName, baseBranch) ==
    IF baseBranch # "" /\ baseBranch \notin DOMAIN r.refs
    THEN [repo |-> r, out |-> "", err |-> "failed to find base branch"]
    ELSE LET baseRef == IF baseBranch # "" THEN r.refs[baseBranch]
                        ELSE RepoHead(r)
             baseName == IF baseBranch # "" THEN baseBranch ELSE "HEAD"
         IN  [repo |-> [r EXCEPT !.refs =
                          [b \in DOMAIN r.refs \cup {branchName} |->
                              IF b = branchName THEN baseRef ELSE r.refs[b]]],
              out |-> <<"Created branch ", branchName, " from ", baseName>>,
              err |-> "nil"]

\* the index and the worktree differ in a file the index has
containsUnstagedChanges(r) ==
    \E f \in Files : r.index[f] # NoFile /\ r.worktree[f] # r.index[f]

\* Operations.Checkout: worktree.Checkout of refs/heads/branchName without
\* Force or Keep. The branch must exist and the worktree must hold no
\* unstaged change; moved: HEAD was set to the branch before the unstaged
\* changes were found.
Checkout(r, branchName, moved) ==
    IF branchName \notin DOMAIN r.refs
    THEN [repo |-> r, out |-> "", err |-> "failed to checkout branch"]
    ELSE IF containsUnstagedChanges(r)
    THEN [repo |-> IF moved THEN [r EXCEPT !.head = branchName] ELSE r,
          out |-> "", err |-> "failed to checkout branch"]
    ELSE LET tree == r.commits[r.refs[branchName]]
         IN  [repo |-> [r EXCEPT
                          !.head = branchName,
                          !.index = tree,
                          !.worktree =
                             [f \in Files |->
                                IF r.index[f] # NoFile \/ tree[f] # NoFile
                                THEN tree[f] ELSE r.worktree[f]]],
              out |-> <<"Switched to branch ", branchName>>,
              err |-> "nil"]

\* Operations.Branch with branchType "local": the branches, the current one
\* marked
Branch(r) ==
    {[name |-> b, current |-> b = r.head] : b \in DOMAIN r.refs}

(* ------------------------------ actions ------------------------------- *)

\* NewServer
NewServer ==
    /\ tools = <<>>
    /\ toolHandlers = [n \in {} |-> "none"]
    /\ initialized = FALSE
    /\ cancelled = FALSE
    /\ pc = "register"
    /\ line = NoLine
    /\ response = Nil
    /\ invoked = <<>>
    /\ wrote = "none"
    /\ ret = "running"
    /\ firstInit = Nil
    /\ handlerFailed = FALSE
    /\ registered = <<>>
    /\ inflight = <<>>
    /\ readErr = "nil"

\* the server is constructed; no repository is looked at
Init ==
    /\ NewServer
    /\ repo = NoRepository
    /\ op = NoOperation

\* the tests of internal/git: a repository made by createTestRepo
InitGit ==
    /\ NewServer
    /\ repo = createTestRepo
    /\ op = NoOperation

\* the descriptor is appended and the handler is not stored
RegisterTool_ListOnly(tool, handler) ==
    /\ pc = "register"
    /\ tools' = Append(tools, tool)
    /\ registered' = Append(registered, [tool |-> tool, handler |-> handler])
    /\ UNCHANGED <<repo, op, toolHandlers, initialized, cancelled, pc, line, response,
                   invoked, wrote, ret, firstInit, handlerFailed, inflight,
                   readErr>>

\* Server.RegisterTool, called by main before Serve
RegisterTool(tool, handler) ==
    /\ pc = "register"
    /\ tools' = Append(tools, tool)
    /\ toolHandlers' =
         [n \in DOMAIN toolHandlers \cup {tool.Name} |->
            IF n = tool.Name THEN handler ELSE toolHandlers[n]]
    /\ registered' = Append(registered, [tool |-> tool, handler |-> handler])
    /\ UNCHANGED <<repo, op, initialized, cancelled, pc, line, response, invoked, wrote,
                   ret, firstInit, handlerFailed, inflight, readErr>>

\* main calls Serve
Serve ==
    /\ pc = "register"
    /\ pc' = "select"
    /\ UNCHANGED <<repo, op, tools, toolHandlers, initialized, cancelled, line, response,
                   invoked, wrote, ret, firstInit, handlerFailed, registered,
                   inflight, readErr>>

\* the owner of ctx cancels it
Cancel ==
    /\ ~cancelled
    /\ pc # "returned"
    /\ cancelled' = TRUE
    /\ UNCHANGED <<repo, op, tools, toolHandlers, initialized, pc, line, response,
                   invoked, wrote, ret, firstInit, handlerFailed, registered,
                   inflight, readErr>>

\* Serve: case <-ctx.Done()
ServeDone ==
    /\ pc = "select"
    /\ cancelled
    /\ pc' = "returned"
    /\ ret' = "ctx.Err()"
    /\ UNCHANGED <<repo, op, tools, toolHandlers, initialized, cancelled, line, response,
                   invoked, wrote, firstInit, handlerFailed, registered,
                   inflight, readErr>>

\* ctx.Done() is not looked at: the read is started in every iteration
SelectDefault_NoCheck ==
    /\ pc = "select"
    /\ pc' = "read"
    /\ UNCHANGED <<repo, op, tools, toolHandlers, initialized, cancelled, line, response,
                   invoked, wrote, ret, firstInit, handlerFailed, registered,
                   inflight, readErr>>

\* Serve: default: no cancellation is pending, reader.ReadBytes is called
SelectDefault ==
    /\ pc = "select"
    /\ ~cancelled
    /\ pc' = "read"
    /\ UNCHANGED <<repo, op, tools, toolHandlers, initialized, cancelled, line, response,
                   invoked, wrote, ret, firstInit, handlerFailed, registered,
                   inflight, readErr>>

\* Serve: reader.ReadBytes('\n') returns a line
ReadLine(f) ==
    /\ pc = "read"
    /\ line' = f
    /\ wrote' = "none"
    /\ inflight' = Append(inflight, f)
    /\ pc' = "dispatch"
    /\ UNCHANGED <<repo, op, tools, toolHandlers, initialized, cancelled, response,
                   invoked, ret, firstInit, handlerFailed, registered,
                   readErr>>

\* io.EOF is not told apart from the other read errors
ReadFail_EOFIsError(eof, rest) ==
    /\ pc = "read"
    /\ line' = rest
    /\ readErr' = IF eof THEN "EOF" ELSE "other"
    /\ pc' = "returned"
    /\ ret' = "failed to read request"
    /\ UNCHANGED <<repo, op, tools, toolHandlers, initialized, cancelled, response,
                   invoked, wrote, firstInit, handlerFailed, registered,
                   inflight>>

\* a read error other than io.EOF is skipped and the loop continues
ReadFail_Continue(eof, rest) ==
    /\ pc = "read"
    /\ line' = rest
    /\ readErr' = IF eof THEN "EOF" ELSE "other"
    /\ pc' = IF eof THEN "returned" ELSE "select"
    /\ ret' = IF eof THEN "nil" ELSE ret
    /\ UNCHANGED <<repo, op, tools, toolHandlers, initialized, cancelled, response,
                   invoked, wrote, firstInit, handlerFailed, registered,
                   inflight>>

\* the end of the stream follows a frame without its newline
ReadFail_DispatchRest(eof, rest) ==
    /\ pc = "read"
    /\ line' = rest
    /\ readErr' = IF eof THEN "EOF" ELSE "other"
    /\ pc' = IF eof /\ rest # NoLine THEN "dispatch" ELSE "returned"
    /\ inflight' = IF eof /\ rest # NoLine THEN Append(inflight, rest)
                   ELSE inflight
    /\ ret' = IF eof /\ rest # NoLine THEN ret
              ELSE IF eof THEN "nil" ELSE "failed to read request"
    /\ UNCHANGED <<repo, op, tools, toolHandlers, initialized, cancelled, response,
                   invoked, wrote, firstInit, handlerFailed, registered>>

\* Serve: reader.ReadBytes('\n') returns an error, io.EOF or another one,
\* and with it the bytes read since the last newline (rest), which Serve
\* leaves in line and does not look at
ReadFail(eof, rest) ==
    /\ pc = "read"
    /\ line' = rest
    /\ readErr' = IF eof THEN "EOF" ELSE "other"
    /\ pc' = "returned"
    /\ ret' = IF eof THEN "nil" ELSE "failed to read request"
    /\ UNCHANGED <<repo, op, tools, toolHandlers, initialized, cancelled, response,
                   invoked, wrote, firstInit, handlerFailed, registered,
                   inflight>>

\* the first successful initialize empties the descriptor list
Dispatch_ForgetTools(outcome) ==
    /\ pc = "dispatch"
    /\ LET h == handleRequest(line, outcome)
       IN  /\ response' = h.response
           /\ initialized' = h.initialized
           /\ invoked' = h.invoked
           /\ tools' = IF h.initialized /\ ~initialized THEN <<>> ELSE tools
           /\ firstInit' =
                IF /\ firstInit = Nil
                   /\ ~UnmarshalRequest(line).err
                   /\ UnmarshalRequest(line).Method = MethodInitialize
                   /\ h.response.Error = Nil
                THEN h.response.Result ELSE firstInit
           /\ handlerFailed' =
                (handlerFailed \/ \E i \in DOMAIN h.invoked :
                                    h.invoked[i].returned.err # "nil")
    /\ pc' = "write"
    /\ UNCHANGED <<repo, op, toolHandlers, cancelled, line, wrote, ret, registered,
                   inflight, readErr>>

\* the loop continues without handing the response to the writer
Dispatch_NoWrite(outcome) ==
    /\ pc = "dispatch"
    /\ LET h == handleRequest(line, outcome)
       IN  /\ response' = h.response
           /\ initialized' = h.initialized
           /\ invoked' = h.invoked
           /\ firstInit' =
                IF /\ firstInit = Nil
                   /\ ~UnmarshalRequest(line).err
                   /\ UnmarshalRequest(line).Method = MethodInitialize
                   /\ h.response.Error = Nil
                THEN h.response.Result ELSE firstInit
           /\ handlerFailed' =
                (handlerFailed \/ \E i \in DOMAIN h.invoked :
                                    h.invoked[i].returned.err # "nil")
    /\ pc' = "select"
    /\ UNCHANGED <<repo, op, tools, toolHandlers, cancelled, line, wrote, ret, registered,
                   inflight, readErr>>

\* Serve: response, err := s.handleRequest(ctx, line); err is always nil
Dispatch(outcome) ==
    /\ pc = "dispatch"
    /\ LET h == handleRequest(line, outcome)
       IN  /\ response' = h.response
           /\ initialized' = h.initialized
           /\ invoked' = h.invoked
           /\ firstInit' =
                IF /\ firstInit = Nil
                   /\ ~UnmarshalRequest(line).err
                   /\ UnmarshalRequest(line).Method = MethodInitialize
                   /\ h.response.Error = Nil
                THEN h.response.Result ELSE firstInit
           /\ handlerFailed' =
                (handlerFailed \/ \E i \in DOMAIN h.invoked :
                                    h.invoked[i].returned.err # "nil")
    /\ pc' = "write"
    /\ UNCHANGED <<repo, op, tools, toolHandlers, cancelled, line, wrote, ret, registered,
                   inflight, readErr>>

\* Serve returns after it has written an error response
WriteResponse_StopOnError(ok) ==
    /\ pc = "write"
    /\ wrote' = IF response = Nil THEN "none" ELSE IF ok THEN "ok" ELSE "failed"
    /\ inflight' = Tail(inflight)
    /\ line' = NoLine
    /\ response' = Nil
    /\ invoked' = <<>>
    /\ pc' = IF response.Error # Nil THEN "returned" ELSE "select"
    /\ ret' = IF response.Error # Nil THEN "request failed" ELSE ret
    /\ UNCHANGED <<repo, op, tools, toolHandlers, initialized, cancelled, firstInit,
                   handlerFailed, registered, readErr>>

\* Serve returns the error of json.Marshal or writer.Write
WriteResponse_FatalOnFail(ok) ==
    /\ pc = "write"
    /\ wrote' = IF response = Nil THEN "none" ELSE IF ok THEN "ok" ELSE "failed"
    /\ inflight' = Tail(inflight)
    /\ line' = NoLine
    /\ response' = Nil
    /\ invoked' = <<>>
    /\ pc' = IF ok THEN "select" ELSE "returned"
    /\ ret' = IF ok THEN ret ELSE "failed to write response"
    /\ UNCHANGED <<repo, op, tools, toolHandlers, initialized, cancelled, firstInit,
                   handlerFailed, registered, readErr>>

\* Serve: json.Marshal(response) and writer.Write; a failure of either is
\* logged and the loop continues
WriteResponse(ok) ==
    /\ pc = "write"
    /\ wrote' = IF response = Nil THEN "none" ELSE IF ok THEN "ok" ELSE "failed"
    /\ inflight' = Tail(inflight)
    /\ line' = NoLine
    /\ response' = Nil
    /\ invoked' = <<>>
    /\ pc' = "select"
    /\ UNCHANGED <<repo, op, tools, toolHandlers, initialized, cancelled, ret, firstInit,
                   handlerFailed, registered, readErr>>

Next ==
    \/ \E r \in Registrations :
          Len(tools) < MaxTools /\ RegisterTool(r.tool, r.handler)
    \/ Serve
    \/ Cancel
    \/ ServeDone
    \/ SelectDefault
    \/ \E f \in Frames : ReadLine(f)
    \/ \E eof \in BOOLEAN, rest \in Rests : ReadFail(eof, rest)
    \/ \E outcome \in Outcomes : Dispatch(outcome)
    \/ \E ok \in BOOLEAN : WriteResponse(ok)

Spec == Init /\ [][Next]_vars

\* server.New: registerTools makes its next RegisterTool call
New ==
    /\ Len(tools) < Len(registerTools)
    /\ RegisterTool(registerTools[Len(tools) + 1].tool,
                    registerTools[Len(tools) + 1].handler)

\* main: srv.Serve(ctx) on the server server.New has returned
NextNew ==
    \/ New
    \/ Len(tools) = Len(registerTools) /\ Serve
    \/ Cancel
    \/ ServeDone
    \/ SelectDefault
    \/ \E f \in FramesNew : ReadLine(f)
    \/ \E eof \in BOOLEAN, rest \in Rests : ReadFail(eof, rest)
    \/ \E outcome \in Outcomes : Dispatch(outcome)
    \/ \E ok \in BOOLEAN : WriteResponse(ok)

SpecNew == Init /\ [][NextNew]_vars

\* Server.handleGitRawCommand: the tool handler of git_raw_command, called
\* with a command argument
handleGitRawCommand(command, failed) ==
    /\ op' = RawCommand("/repo", command, failed)
    /\ UNCHANGED <<repo, tools, toolHandlers, initialized, cancelled, pc,
                   line, response, invoked, wrote, ret, firstInit,
                   handlerFailed, registered, inflight, readErr>>

\* one call of the tool with each command
NextRaw ==
    \E command \in Commands, failed \in BOOLEAN :
        op = NoOperation /\ handleGitRawCommand(command, failed)

SpecRaw == Init /\ [][NextRaw]_vars

\* the repository operations that follow write op and repo only
Called(name, args, result) ==
    /\ op' = Operation(name, args, result.out, result.err, Nil, op.name)
    /\ UNCHANGED serverVars

\* os.WriteFile by the user of the repository, as in the tests
WriteFile(f, c) ==
    /\ repo' = [repo EXCEPT !.worktree[f] = c]
    /\ Called("WriteFile", <<f, c>>, [out |-> "", err |-> "nil"])

\* Server.handleGitAdd
handleGitAdd(files) ==
    /\ repo' = Add(repo, files).repo
    /\ Called("Add", <<files>>, Add(repo, files))

\* Server.handleGitReset
handleGitReset ==
    /\ repo' = Reset(repo).repo
    /\ Called("Reset", <<>>, Reset(repo))

\* Server.handleGitCommit, called with changes staged
handleGitCommit ==
    /\ Len(repo.commits) < MaxCommits
    /\ repo.index # HeadTree(repo)
    /\ repo' = Commit(repo).repo
    /\ Called("Commit", <<>>, Commit(repo))

\* Server.handleGitDiffStaged
handleGitDiffStaged ==
    /\ repo' = repo
    /\ Called("DiffStaged", <<>>, DiffStaged(repo))

\* Server.handleGitCreateBranch
handleGitCreateBranch(branchName, baseBranch) ==
    /\ repo' = CreateBranch(repo, branchName, baseBranch).repo
    /\ Called("CreateBranch", <<branchName, baseBranch>>,
              CreateBranch(repo, branchName, baseBranch))

\* Server.handleGitCheckout
handleGitCheckout(branchName, moved) ==
    /\ repo' = Checkout(repo, branchName, moved).repo
    /\ Called("Checkout", <<branchName>>, Checkout(repo, branchName, moved))

\* the file lists Add is called with
AddFiles ==
    {<<>>, <<".">>, <<"test.txt">>, <<"new.txt">>, <<"new.txt", "test.txt">>}

NextGit ==
    \/ \E f \in Files, c \in Contents : WriteFile(f, c)
    \/ \E files \in AddFiles : handleGitAdd(files)
    \/ handleGitReset
    \/ handleGitCommit
    \/ handleGitDiffStaged
    \/ \E branchName \in BranchNames, baseBranch \in BranchNames \cup {""} :
          handleGitCreateBranch(branchName, baseBranch)
    \/ \E branchName \in BranchNames, moved \in BOOLEAN :
          handleGitCheckout(branchName, moved)

SpecGit == InitGit /\ [][NextGit]_vars

(* ------------------------------ properties ---------------------------- *)

\* the request the frame in hand decodes to
request == UnmarshalRequest(line)
\* handleRequest has returned for the frame in hand
Answered == pc = "write"
\* handleRequest is about to return for the frame in hand
Answering == pc = "dispatch" /\ pc' = "write"
Routed(method) == ~request.err /\ request.Method = method
ErrorCode(resp) == IF resp.Error = Nil THEN 0 ELSE resp.Error.Code

\* C1: a tools/list or tools/call dispatched while no initialize has yet
\* succeeded is answered with error -32002 whatever its params are, and no
\* tool handler is invoked.
C1_NotInitialized ==
    (/\ Answered
     /\ Routed(MethodListTools) \/ Routed(MethodCallTool)
     /\ firstInit = Nil)
    => /\ response.Result = Nil
       /\ response.Error = RPCError(-32002, <<"Server not initialized">>)
       /\ invoked = <<>>

\* a tools/call naming a registered tool is rejected before initialize
C1_Witness ==
    /\ Answered
    /\ Routed(MethodCallTool)
    /\ firstInit = Nil
    /\ ~UnmarshalCallToolRequest(request.Params).err
    /\ UnmarshalCallToolRequest(request.Params).Name \in DOMAIN toolHandlers
    /\ ErrorCode(response) = -32002

\* C2: initialized is false at construction, becomes true only by an
\* initialize request whose params decode, and once true stays true.
C2_InitializedOneWay ==
    /\ ~initialized
    /\ [][/\ initialized => initialized'
          /\ (~initialized /\ initialized') =>
                /\ Answering
                /\ Routed(MethodInitialize)
                /\ ~UnmarshalInitializeRequest(request.Params).err]_vars

\* the flag is set, and requests of every kind have been answered since
C2_Witness ==
    /\ initialized
    /\ Answered
    /\ request.err
    /\ handlerFailed

C4_ResultXorError ==
    Answered =>
        /\ response # Nil
        /\ (response.Result = Nil) # (response.Error = Nil)

\* a handler error has been answered
C4_Witness ==
    /\ Answered
    /\ invoked # <<>>
    /\ invoked[1].returned.err # "nil"
    /\ response.Result = Nil
    /\ response.Error # Nil
\* the registration made last under the name n
LastRegistered(n) ==
    LET last == CHOOSE i \in DOMAIN registered :
                    /\ registered[i].tool.Name = n
                    /\ \A j \in DOMAIN registered :
                          registered[j].tool.Name = n => j <= i
    IN  registered[last]
RegisteredNames == {registered[i].tool.Name : i \in DOMAIN registered}

\* C5: when two tools are registered with the same name, tools/list after
\* initialize returns one descriptor with that name, the one registered
\* last, and tools/call with that name invokes the handler registered last.
C5_LastRegistrationWins ==
    (Answered /\ firstInit # Nil) =>
        /\ (Routed(MethodListTools) /\ response.Result # Nil) =>
              \A n \in RegisteredNames :
                 /\ Cardinality({i \in DOMAIN response.Result.Tools :
                                    response.Result.Tools[i].Name = n}) = 1
                 /\ \E i \in DOMAIN response.Result.Tools :
                       response.Result.Tools[i] = LastRegistered(n).tool
        /\ (Routed(MethodCallTool) /\ invoked # <<>>) =>
              invoked[1].handler =
                 LastRegistered(
                    UnmarshalCallToolRequest(request.Params).Name).handler

\* C6: a handler that reports an error is answered with error -32603 and
\* the message "Tool execution error: <handler message>"; the session stays
\* initialized, Serve has not returned, and the tools/list and tools/call
\* requests that follow are served, not rejected.
C6_HandlerError ==
    /\ (Answered /\ invoked # <<>> /\ invoked[1].returned.err # "nil") =>
          /\ response.Result = Nil
          /\ response.Error =
                RPCError(-32603, <<"Tool execution error: ",
                                   invoked[1].returned.err>>)
          /\ initialized
          /\ ret = "running"
    /\ handlerFailed => initialized
    /\ (Answered /\ handlerFailed /\ Routed(MethodListTools)) =>
          response = JSONRPCResponse(request.ID, [Tools |-> tools], Nil)
    /\ (Answered /\ handlerFailed /\ Routed(MethodCallTool)) =>
          /\ ErrorCode(response) # -32002
          /\ (/\ ~UnmarshalCallToolRequest(request.Params).err
              /\ UnmarshalCallToolRequest(request.Params).Name
                    \in DOMAIN toolHandlers) => invoked # <<>>

\* after a handler error, a later tools/call returns a result
C6_Witness ==
    /\ handlerFailed
    /\ Answered
    /\ Routed(MethodCallTool)
    /\ invoked # <<>>
    /\ response.Error = Nil
    /\ response.Result # Nil

\* C7: after a successful initialize, a tools/call whose params decode and
\* whose name is not registered is answered with error -32601 and a message
\* containing the name; no handler is invoked and the session state is
\* unchanged.
C7_UnknownTool ==
    [][(/\ Answering
        /\ Routed(MethodCallTool)
        /\ firstInit # Nil
        /\ ~UnmarshalCallToolRequest(request.Params).err
        /\ UnmarshalCallToolRequest(request.Params).Name
              \notin RegisteredNames)
       => /\ response'.Result = Nil
          /\ response'.Error =
                RPCError(-32601,
                    <<"Unknown tool: ",
                      UnmarshalCallToolRequest(request.Params).Name>>)
          /\ invoked' = <<>>
          /\ UNCHANGED <<initialized, tools, toolHandlers>>]_vars

\* the tool "nonexistent" has been called after initialize
C7_Witness ==
    /\ Answered
    /\ Routed(MethodCallTool)
    /\ firstInit # Nil
    /\ UnmarshalCallToolRequest(request.Params).Name = "nonexistent"
    /\ ErrorCode(response) = -32601

\* C8: an initialize that succeeds after an earlier one leaves the session
\* initialized, returns the result the first one returned, leaves the tool
\* registry unchanged, and tools/list succeeds with the same list after it.
C8_InitializeIdempotent ==
    [][(/\ Answering
        /\ Routed(MethodInitialize)
        /\ firstInit # Nil
        /\ response'.Error = Nil)
       => /\ initialized /\ initialized'
          /\ response'.Result = firstInit
          /\ UNCHANGED <<tools, toolHandlers>>
          /\ handleListTools(request).response
                = JSONRPCResponse(request.ID, [Tools |-> tools], Nil)
          /\ handleListTools(request).response'
                = handleListTools(request).response]_vars

\* a second initialize succeeded with another protocolVersion than the first
C8_Witness ==
    /\ Answered
    /\ Routed(MethodInitialize)
    /\ response.Error = Nil
    /\ firstInit # Nil
    /\ wrote = "none"
    /\ initialized
    /\ request.Params.shape = "object"
    /\ request.Params.protocolVersion = Str("x")
    /\ handlerFailed
\* params that are a JSON object without a key the method requires
MissingRequired ==
    /\ ~request.err
    /\ request.Params.shape = "object"
    /\ \/ /\ request.Method = MethodInitialize
          /\ \/ request.Params.protocolVersion = Absent
             \/ request.Params.clientInfo = Absent
       \/ /\ request.Method = MethodCallTool
          /\ initialized
          /\ request.Params.name = Absent

\* C9: an initialize without protocolVersion or clientInfo, or a tools/call
\* without name, is answered with error -32602, and the initialize does not
\* move the session to Initialized.
C9_MissingFieldRejected ==
    [][(Answering /\ MissingRequired)
       => /\ ErrorCode(response)' = -32602
          /\ Routed(MethodInitialize) => initialized' = initialized]_vars

NotARequest ==
    \/ line.syntax \in {"invalid", "nonobject"}
    \/ /\ line.syntax = "object"
       /\ \/ line.jsonrpc.t \in {"number", "object", "array"}
          \/ line.method.t \in {"number", "object", "array"}

\* C11: a frame that does not decode as a Request is answered with error
\* -32700 "Parse error" and no id; the session flag and the registry are
\* unchanged and no handler is invoked, initialized or not.
C11_ParseError ==
    [][(Answering /\ NotARequest)
       => /\ response' = JSONRPCResponse(Nil, Nil,
                            RPCError(-32700, <<"Parse error">>))
          /\ invoked' = <<>>
          /\ UNCHANGED <<initialized, tools, toolHandlers>>]_vars

\* a frame with a number as method has been answered in the initialized
\* state
C11_Witness ==
    /\ Answered
    /\ initialized
    /\ line.syntax = "object"
    /\ line.method.t = "number"
    /\ line.id # Absent
    /\ response.ID = Nil
    /\ ErrorCode(response) = -32700

\* C12: a decoded request whose method is none of initialize, tools/list
\* and tools/call (a missing method and roots/list included) is answered
\* with error -32601 "Method not found" in both session states, and changes
\* no state.
C12_MethodNotFound ==
    [][(/\ Answering
        /\ ~NotARequest
        /\ request.Method
              \notin {MethodInitialize, MethodListTools, MethodCallTool})
       => /\ response' = JSONRPCResponse(request.ID, Nil,
                            RPCError(-32601, <<"Method not found">>))
          /\ invoked' = <<>>
          /\ UNCHANGED <<initialized, tools, toolHandlers>>]_vars

\* roots/list has been answered before any initialize
C12_Witness ==
    /\ Answered
    /\ ~initialized
    /\ Routed(MethodListRoots)
    /\ ErrorCode(response) = -32601

\* the descriptors passed to RegisterTool, in the order of the calls
RegisteredTools == [i \in DOMAIN registered |-> registered[i].tool]

\* C13: after a successful initialize, tools/list returns every registered
\* descriptor in registration order, nothing filtered out, and so the same
\* list on every call of the session.
C13_ListAllInOrder ==
    (Answered /\ Routed(MethodListTools) /\ firstInit # Nil)
    => /\ response.Error = Nil
       /\ response.Result = [Tools |-> RegisteredTools]

\* two different tools are listed after a handler has failed in between
C13_Witness ==
    /\ Answered
    /\ Routed(MethodListTools)
    /\ handlerFailed
    /\ response.Result # Nil
    /\ Len(response.Result.Tools) > 1
    /\ response.Result.Tools[1].Name # response.Result.Tools[2].Name

\* C14: the response to a frame is handed to the writer before the next
\* frame is read: at most one frame is in flight, the response in hand is
\* the one computed for it, and nothing is in flight when a frame is read.
C14_OneInFlight ==
    /\ [](/\ Len(inflight) <= 1
          /\ pc \in {"dispatch", "write"} => inflight = <<line>>
          /\ pc \in {"select", "read", "returned"} => inflight = <<>>
          /\ pc = "write" =>
                \E outcome \in Outcomes :
                    response = handleRequest(line, outcome).response)
    /\ [][(pc = "read" /\ pc' = "dispatch")
          => /\ inflight = <<>>
             /\ inflight' = <<line'>>]_vars
    /\ [][(pc = "write" /\ pc' # "write")
          => /\ pc' = "select"
             /\ inflight' = <<>>
             /\ wrote' \in {"ok", "failed"}]_vars

\* a frame is read after the response to the one before it was written
C14_Witness ==
    /\ pc = "dispatch"
    /\ firstInit # Nil
    /\ inflight = <<line>>
    /\ Routed(MethodCallTool)

\* C15: no error response stops the loop: the request that is answered
\* with an error changes no state of the server, Serve has not returned
\* when the response is written, and the loop goes on to the next read.
C15_ErrorsDoNotStop ==
    /\ [][(Answering /\ response'.Error # Nil)
          => /\ response'.Error.Code
                   \in {-32700, -32002, -32602, -32601, -32603}
             /\ ret' = "running"
             /\ UNCHANGED <<initialized, tools, toolHandlers>>]_vars
    /\ [][(pc = "write" /\ response.Error # Nil /\ pc' # "write")
          => /\ pc' = "select"
             /\ ret' = "running"]_vars
    /\ [][(pc = "select" /\ ~cancelled /\ pc' # "select")
          => /\ pc' = "read"
             /\ ret' = "running"]_vars

\* after a handler failure the loop waits for the next frame
C15_Witness ==
    /\ pc = "read"
    /\ ~cancelled
    /\ handlerFailed
    /\ wrote = "ok"

\* C16: cancellation is observed where an iteration starts: Serve then
\* returns ctx.Err() without reading a frame or invoking a handler; a
\* request in hand when the signal arrives is still answered and its
\* response handed to the writer before Serve returns.
C16_Cancellation ==
    /\ [][(pc = "select" /\ cancelled /\ pc' # "select")
          => /\ pc' = "returned"
             /\ ret' = "ctx.Err()"
             /\ UNCHANGED <<line, response, invoked, inflight, initialized>>]_vars
    /\ [][(pc = "dispatch" /\ cancelled /\ pc' # "dispatch")
          => /\ pc' = "write"
             /\ \E outcome \in Outcomes :
                    /\ response' = handleRequest(line, outcome).response
                    /\ invoked' = handleRequest(line, outcome).invoked]_vars
    /\ [][(pc = "write" /\ cancelled /\ pc' # "write")
          => /\ pc' = "select"
             /\ wrote' \in {"ok", "failed"}]_vars
    /\ [](ret = "ctx.Err()" => (cancelled /\ pc = "returned" /\ inflight = <<>>))

\* the context was cancelled while a handler call was in hand
C16_Witness ==
    /\ pc = "write"
    /\ cancelled
    /\ invoked # <<>>
    /\ response.Error = Nil

\* C17: at end-of-stream Serve returns nil, and every frame read before it
\* has been dispatched and its response handed to the writer: no frame is
\* in flight and no response is pending.
C17_EndOfStream ==
    readErr = "EOF" =>
        /\ pc = "returned"
        /\ ret = "nil"
        /\ inflight = <<>>
        /\ response = Nil

\* end-of-stream after a frame was answered
C17_Witness ==
    /\ readErr = "EOF"
    /\ wrote = "ok"
    /\ initialized

\* C18: a response that cannot be serialized or written is skipped: Serve
\* has not returned, the loop is back where an iteration starts, and what
\* the request changed (the initialized flag) stays as it is.
C18_WriteFailure ==
    /\ [][(pc = "write" /\ wrote' = "failed")
          => /\ pc' = "select"
             /\ ret' = "running"
             /\ inflight' = <<>>
             /\ UNCHANGED <<initialized, tools, toolHandlers, firstInit>>]_vars
    /\ [](wrote = "failed" => (ret = "running" \/ readErr # "nil" \/ cancelled))
    /\ [](firstInit # Nil => initialized)

\* the next read is started after a lost response, the flag is set
C18_Witness ==
    /\ pc = "read"
    /\ wrote = "failed"
    /\ initialized
    /\ ~cancelled

\* C19: a read error other than end-of-stream makes Serve return the error
\* "failed to read request"; nothing is dispatched or written afterwards.
C19_ReadError ==
    /\ [](readErr = "other" =>
            /\ pc = "returned"
            /\ ret = "failed to read request"
            /\ inflight = <<>>)
    /\ [][readErr = "other" =>
            UNCHANGED <<pc, ret, line, response, invoked, wrote, inflight,
                        initialized>>]_vars

\* the read failed after requests had been served
C19_Witness ==
    /\ readErr = "other"
    /\ ret = "failed to read request"
    /\ handlerFailed

\* C20: a successful initialize answers with protocol version 2024-11-05
\* whatever the client sent, and with the name and the version the server
\* was constructed with, go-mcp-git and 0.0.1.
C20_FixedVersionAndInfo ==
    (/\ Answered
     /\ Routed(MethodInitialize)
     /\ response.Error = Nil)
    => /\ response.Result.ProtocolVersion = "2024-11-05"
       /\ response.Result.ServerInfo.Name = "go-mcp-git"
       /\ response.Result.ServerInfo.Version = "0.0.1"

\* the client asked for another version than the one it is answered
C20_Witness ==
    /\ Answered
    /\ Routed(MethodInitialize)
    /\ response.Error = Nil
    /\ request.Params.protocolVersion = Str("x")
    /\ response.Result.ProtocolVersion = "2024-11-05"
    /\ ~handlerFailed

\* the name-to-handler mapping RegisterTool has built: the handler of the
\* last registration of each name
RegisteredHandlers ==
    [n \in RegisteredNames |-> LastRegistered(n).handler]

\* C21: once Serve runs, no step changes the descriptor list or the
\* name-to-handler mapping: they stay what the registrations built, and a
\* dispatched request changes nothing of the server but the initialized
\* flag.
C21_RegistryImmutable ==
    /\ [][pc # "register" => UNCHANGED <<tools, toolHandlers>>]_vars
    /\ [](/\ tools = RegisteredTools
          /\ toolHandlers = RegisteredHandlers)
    /\ [][Answering =>
            /\ UNCHANGED <<tools, toolHandlers, registered>>
            /\ \E outcome \in Outcomes :
                  initialized' = handleRequest(line, outcome).initialized]_vars

\* requests of every kind have been served and the registry is as built
C21_Witness ==
    /\ pc = "read"
    /\ Len(tools) = MaxTools
    /\ initialized
    /\ handlerFailed
    /\ wrote = "ok"
    /\ cancelled

callReq == UnmarshalCallToolRequest(request.Params)

\* C25: tools/call checks the initialized flag, then the params, then the
\* tool name, then the handler's result, and answers with the code of the
\* first check that fails: -32002, -32602, -32601, -32603.
C25_CheckOrder ==
    (Answered /\ Routed(MethodCallTool)) =>
        ErrorCode(response) =
            IF firstInit = Nil THEN -32002
            ELSE IF callReq.err THEN -32602
            ELSE IF callReq.Name \notin RegisteredNames THEN -32601
            ELSE IF \E i \in DOMAIN invoked : invoked[i].returned.err # "nil"
                 THEN -32603
            ELSE 0

\* a call that fails the first three checks at once
C25_Witness ==
    /\ Answered
    /\ Routed(MethodCallTool)
    /\ firstInit = Nil
    /\ callReq.err
    /\ callReq.Name \notin RegisteredNames
    /\ registered # <<>>
    /\ ErrorCode(response) = -32002

\* C26: a handler is invoked only for a tools/call that follows a
\* successful initialize, whose params decode and whose name is registered:
\* once, the handler the name maps to, with the arguments of the request.
C26_HandlerInvocation ==
    /\ pc # "write" => invoked = <<>>
    /\ pc = "write" =>
          /\ invoked # <<>> <=>
                /\ Routed(MethodCallTool)
                /\ firstInit # Nil
                /\ ~callReq.err
                /\ callReq.Name \in RegisteredNames
          /\ invoked # <<>> =>
                /\ Len(invoked) = 1
                /\ invoked[1].handler = LastRegistered(callReq.Name).handler
                /\ invoked[1].arguments = callReq.Arguments

\* a handler has been invoked with the arguments of the request
C26_Witness ==
    /\ pc = "write"
    /\ Len(invoked) = 1
    /\ request.Params.arguments = Obj("{repo_path}")
    /\ invoked[1].arguments = [map |-> "{repo_path}"]

\* C27: every frame that is read gets one response: handleRequest returns
\* a response for every line, with or without an id, decodable or not, and
\* the loop makes one write attempt for it before the next read.
C27_OneResponsePerFrame ==
    /\ [](pc = "write" => (response # Nil /\ Len(inflight) = 1))
    /\ [][(pc = "write" /\ pc' # "write")
          => /\ wrote' \in {"ok", "failed"}
             /\ Len(inflight') = 0
             /\ response' = Nil]_vars
    /\ [][(pc = "read" /\ pc' = "dispatch")
          => (wrote' = "none" /\ Len(inflight') = 1)]_vars

\* a request without id of an unrouted method has a response
C27_Witness ==
    /\ pc = "write"
    /\ ~request.err
    /\ request.ID = Nil
    /\ line.id = Absent
    /\ request.Method \notin {MethodInitialize, MethodListTools, MethodCallTool}
    /\ response # Nil

\* C29: the names of the descriptors tools/list returns are the names
\* tools/call finds a handler for, whatever was registered.
C29_ListedIffCallable ==
    /\ {tools[i].Name : i \in DOMAIN tools} = DOMAIN toolHandlers
    /\ (Answered /\ Routed(MethodListTools) /\ response.Error = Nil) =>
          {response.Result.Tools[i].Name :
              i \in DOMAIN response.Result.Tools} = DOMAIN toolHandlers
    /\ (Answered /\ Routed(MethodCallTool) /\ initialized /\ ~callReq.err) =>
          (ErrorCode(response) = -32601
             <=> callReq.Name \notin {tools[i].Name : i \in DOMAIN tools})

\* a name registered twice is called: two descriptors, one handler
C29_Witness ==
    /\ Answered
    /\ Routed(MethodCallTool)
    /\ Len(tools) = 2
    /\ Cardinality(DOMAIN toolHandlers) = 1
    /\ invoked # <<>>

\* C28: a frame without its newline at the end of the stream is not
\* dispatched: Serve returns nil, no response is made for it, no handler is
\* invoked, and the initialized flag stays as it was.
C28_UnterminatedFrame ==
    /\ []((readErr = "EOF" /\ line # NoLine) =>
            /\ pc = "returned"
            /\ ret = "nil"
            /\ response = Nil
            /\ invoked = <<>>
            /\ inflight = <<>>)
    /\ [][(pc = "read" /\ readErr' = "EOF") =>
            UNCHANGED <<initialized, firstInit, wrote, response, invoked,
                        inflight, handlerFailed>>]_vars
    /\ [][readErr = "EOF" =>
            UNCHANGED <<pc, ret, line, initialized, firstInit, wrote,
                        response, invoked, inflight>>]_vars

\* the stream ended after an initialize without newline: not initialized
C28_Witness ==
    /\ readErr = "EOF"
    /\ line \in Rests \ {NoLine}
    /\ UnmarshalRequest(line).Method = MethodInitialize
    /\ ~initialized
    /\ ret = "nil"

\* the characters of a command that are no white space, in order
RECURSIVE NonSpace(_)
NonSpace(s) ==
    IF s = <<>> THEN <<>>
    ELSE IF IsSpace(Head(s)) THEN NonSpace(Tail(s))
    ELSE <<Head(s)>> \o NonSpace(Tail(s))
\* the concatenation of the sequences of a sequence
RECURSIVE Flatten(_)
Flatten(ss) == IF ss = <<>> THEN <<>> ELSE Head(ss) \o Flatten(Tail(ss))
\* the first token of the command is git: after leading white space come
\* g, i, t and then white space or the end
StartsWithGitToken(s) ==
    \E i \in 1..Len(s) :
        /\ \A j \in 1..(i - 1) : IsSpace(s[j])
        /\ i + 2 <= Len(s)
        /\ SubSeq(s, i, i + 2) = <<"g", "i", "t">>
        /\ (i + 3 <= Len(s) => IsSpace(s[i + 3]))

C23_ResetUnstages ==
    /\ []((op.name = "Reset" /\ op.prev = "Add" /\ op.err = "nil") =>
            /\ op.out = "All staged changes reset"
            /\ repo.index = HeadTree(repo)
            /\ DiffStaged(repo).out.text = "no staged changes")
    /\ [][op'.name = "Reset" => repo'.worktree = repo.worktree]_vars

\* C24: after CreateBranch(name, base) succeeds the local branches include
\* name, name points at the commit of base (HEAD when base is empty), the
\* current branch is the one it was, and a Checkout(name) that follows
\* succeeds and makes name the current branch.
C24_CreateBranchThenCheckout ==
    /\ [][(op'.name = "CreateBranch" /\ op'.err = "nil") =>
            /\ \E b \in Branch(repo') : b.name = op'.args[1]
            /\ repo'.refs[op'.args[1]] =
                  IF op'.args[2] = "" THEN RepoHead(repo)
                  ELSE repo.refs[op'.args[2]]
            /\ repo'.head = repo.head]_vars
    /\ [][(/\ op.name = "CreateBranch"
           /\ op.err = "nil"
           /\ op'.name = "Checkout"
           /\ op'.args = <<op.args[1]>>)
          => /\ op'.err = "nil"
             /\ repo'.head = op.args[1]
             /\ \E b \in Branch(repo') : b.name = op.args[1] /\ b.current]_vars

====
